---- MODULE Spec2Model ----
(***************************************************************************)
(* A model of filemon (src/main/src/filemon.c): main() checks the command  *)
(* and the -d arguments, monitor() opens an inotify instance, registers    *)
(* one watch per path, then reads batches of events for ever; for each     *)
(* event it recovers the directory of the watch descriptor and calls       *)
(* show_inotify_event(), which logs the event and, for a close event with  *)
(* a file name, forks a child that runs "sh -c <command> <dir>/<name>" and *)
(* waits for it.                                                           *)
(*                                                                         *)
(* C strings are sequences of one-character strings.  The kernel side of   *)
(* the inotify descriptor and the child processes are the environment.     *)
(***************************************************************************)
EXTENDS Integers, Sequences, FiniteSets, TLC

VARIABLES
    command,        \* char * command: the -c argument, or NULL
    dirs,           \* the -d arguments, in order (dirs[0 .. dirs_counter-1])
    junk,           \* contents of heap words that malloc/realloc returned and nobody wrote
    bad_option,     \* the command line holds an option other than -d and -c
    sigchld_ignored,\* SIGCHLD is ignored when the program starts (inherited through exec)
    pc,             \* position of the monitoring process
    exit_code,      \* its exit status once pc = "exited"
    directories,    \* monitor()'s directories[] (abs_dirs of main)
    wd_names,       \* monitor()'s wd_names[]
    j,              \* index of the registration loop
    watches,        \* kernel: the watches of the inotify instance, [ino, wd] records
    buf,            \* char buf[]: the event records of the last read() that returned any
    num_bytes_read, \* the value the last read() returned
    p,              \* the cursor of the event loop, a byte offset into buf
    children,       \* child processes forked and not yet reaped
    child_pid,      \* show_inotify_event()'s child_pid
    shown,          \* history: events logged by show_inotify_event() since the last read()
    spawned,        \* history: commands forked since the last read(), with their cursor
    errno,          \* errno as read() and waitpid() leave it: the error of the last
                    \* one that failed, "none" before; no success clears it
    interrupts,     \* history: reads interrupted in a row since the last batch
    wstatus,        \* history: the status waitpid() stored for the last event handled
    ws              \* history: the value waitpid() returned for it, 0 before it returns

vars == <<command, dirs, junk, bad_option, sigchld_ignored, pc, exit_code, directories,
          wd_names, j, watches, buf, num_bytes_read, p, children, child_pid, shown, spawned,
          errno, interrupts, wstatus, ws>>

----------------------------------------------------------------------------
(* Bounds of the model *)

MaxBatch == 2       \* event records in one read()
MaxPid == 2         \* process ids the kernel hands out to children
MaxInterrupts == 2  \* reads interrupted in a row

----------------------------------------------------------------------------
(* Program constants *)

PATH_MAX == 4096
NAME_MAX == 255
MAX_COMMAND_LEN == PATH_MAX - NAME_MAX - 1
EVENT_SIZE == 16                                \* sizeof(struct inotify_event)
BUF_LEN == 10 * (EVENT_SIZE + NAME_MAX + 1)
DIRS_CHUNK == 16                                \* dirs_len += 16
EXIT_SUCCESS == 0
EXIT_FAILURE == 1
NOT_EXITED == EXIT_SUCCESS - 1                  \* exit_code of a process that has not called exit()

NULL == <<"NULL">>          \* the null pointer
GARBAGE == <<"GARBAGE">>    \* a pointer read from an unwritten heap word
NoName == <<>>              \* an event with len = 0

space == <<" ">>
slash == <<"/">>

----------------------------------------------------------------------------
(* Inputs *)

TMP == <<"/", "t", "m", "p">>
TMP_SLASH == <<"/", "t", "m", "p", "/">>
SPOOL == <<"/", "v", "a", "r", "/", "s", "p", "o", "o", "l">>
ROOT == <<"/">>
MNT == <<"/", "m", "n", "t">>
MISSING == <<"/", "x">>
INBOX == <<"/", "i", "n">>

Repeat(ch, n) == [i \in 1..n |-> ch]

\* A directory whose name is as long as a file name may be, less five.
LONG_DIR == <<"/">> \o Repeat("d", NAME_MAX - 5)

\* The longest command main() accepts, and the shortest it refuses.
LONG_COMMAND == Repeat("c", MAX_COMMAND_LEN)
TOO_LONG_COMMAND == Repeat("c", MAX_COMMAND_LEN + 1)

\* The filesystem: the object each existing path names.  /mnt is a second
\* name of the directory /tmp (a bind mount).
Inode(path) ==
    CASE path = TMP -> 1
      [] path = MNT -> 1
      [] path = SPOOL -> 2
      [] path = ROOT -> 3
      [] path = LONG_DIR -> 4
      [] path = INBOX -> 5
      [] OTHER -> 0

CommandSet == { <<"l", "s">>, NULL }

DirLists ==
    { <<>>, <<TMP_SLASH>>, <<ROOT>>, <<MISSING>>, <<INBOX>>, <<TMP, SPOOL>>, <<TMP, MNT>>,
      <<TMP, TMP>> }

JunkWords == { 0, -1 }

A_TXT == <<"a", ".", "t", "x", "t">>
DOT_T == <<".", "t">>

\* What happens in each directory while it is watched: the [mask, name]
\* pairs of the events the kernel may queue for it.  Files are written in
\* every directory; /in sees every kind of event the claims tell apart.
Activity(ino) ==
    CASE ino = 5 -> { <<{"IN_CLOSE_WRITE"}, A_TXT>>, <<{"IN_CLOSE_WRITE"}, DOT_T>>,
                      <<{"IN_CLOSE_WRITE"}, NoName>>, <<{"IN_CLOSE_NOWRITE"}, A_TXT>>,
                      <<{"IN_MOVED_TO"}, A_TXT>>, <<{"IN_CREATE"}, A_TXT>>,
                      <<{"IN_CREATE"}, DOT_T>> }
      [] ino = 4 -> { <<{"IN_CLOSE_WRITE"}, A_TXT>>, <<{"IN_CLOSE_WRITE"}, DOT_T>> }
      [] OTHER -> { <<{"IN_CLOSE_WRITE"}, A_TXT>> }

Statuses == { [kind |-> "exited", code |-> 0], [kind |-> "exited", code |-> 2],
              [kind |-> "signaled", code |-> 9] }

----------------------------------------------------------------------------
(* The kernel side of the inotify instance *)

WatchedWds == { w.wd : w \in watches }

\* inotify_add_watch(): the watch of an object already watched is returned
\* again, a new object gets the next watch descriptor, starting at 1.
KernelAddWatch(path) ==
    IF \E w \in watches : w.ino = Inode(path)
    THEN (CHOOSE w \in watches : w.ino = Inode(path)).wd
    ELSE Cardinality(watches) + 1

\* The kernel pads the name of an event with null bytes up to a multiple of
\* the record size; len counts the padding.
PadLen(name) ==
    IF name = NoName THEN 0 ELSE ((Len(name) \div EVENT_SIZE) + 1) * EVENT_SIZE

Event(w, m, n) == [wd |-> w, mask |-> m, len |-> PadLen(n), name |-> n]

\* The queue overflow event is delivered with wd = -1 and no name.
OverflowEvent == Event(0 - 1, {"IN_Q_OVERFLOW"}, NoName)

KernelEvents ==
    UNION { { Event(w.wd, a[1], a[2]) : a \in Activity(w.ino) } : w \in watches }
        \cup { OverflowEvent }

Batches == UNION { [1..k -> KernelEvents] : k \in 1..MaxBatch }

RECURSIVE Bytes(_)
Bytes(events) ==
    IF events = <<>> THEN 0
    ELSE EVENT_SIZE + events[1].len + Bytes(Tail(events))

\* The record that starts at byte offset off of buf (0 when none does).
IndexAt(off) ==
    IF \E k \in 1..Len(buf) : Bytes(SubSeq(buf, 1, k - 1)) = off
    THEN CHOOSE k \in 1..Len(buf) : Bytes(SubSeq(buf, 1, k - 1)) = off
    ELSE 0

----------------------------------------------------------------------------
(* main() *)

dirs_counter == Len(dirs)

\* dirs grows by DIRS_CHUNK slots whenever it is full.
dirs_len ==
    IF dirs_counter = 0 THEN 0
    ELSE (((dirs_counter - 1) \div DIRS_CHUNK) + 1) * DIRS_CHUNK

\* realpath(3) on the inputs of the model, which hold no symbolic link and no
\* "." or ".." component: trailing separators go, the root stays "/".
RECURSIVE realpath(_)
realpath(path) ==
    IF Len(path) > 1 /\ path[Len(path)] = "/"
    THEN realpath(SubSeq(path, 1, Len(path) - 1))
    ELSE path

Exists(path) == Inode(realpath(path)) # 0

CommandValid(c) == ~(c = NULL \/ Len(c) > MAX_COMMAND_LEN)

\* abs_dirs as main() leaves it: the resolved path of every -d argument, and
\* whatever malloc() returned in the slots main() skips.
AbsDirs ==
    [i \in 1..dirs_len |->
        IF i <= dirs_counter THEN realpath(dirs[i])
        ELSE IF junk.abs = 0 THEN NULL ELSE GARBAGE]

Exit(code) == pc' = "exited" /\ exit_code' = code

\* The process is killed by a signal it raised itself (a bad memory access).
Crash == pc' = "crashed" /\ exit_code' = exit_code

\* main() up to the call of monitor().  The getopt() loop ends the process
\* at an option it does not know and when realloc() of dirs fails; then come
\* the loop that prints dirs, the test of the command, malloc() of abs_dirs
\* and, for every -d argument, calloc() of its buffer and realpath().
Main ==
    /\ pc = "main"
    /\ \E realloc_ok \in BOOLEAN, malloc_ok \in BOOLEAN, calloc_ok \in BOOLEAN :
       IF bad_option \/ (dirs_counter > 0 /\ ~realloc_ok)
       THEN Exit(EXIT_FAILURE) /\ UNCHANGED directories
       ELSE IF dirs_counter < dirs_len /\ junk.dirs # 0
       THEN Crash /\ UNCHANGED directories
       ELSE IF ~CommandValid(command)
       THEN Exit(EXIT_FAILURE) /\ UNCHANGED directories
       ELSE IF dirs_len > 0
       THEN IF ~malloc_ok \/ ~calloc_ok \/ \E i \in 1..dirs_counter : ~Exists(dirs[i])
            THEN Exit(EXIT_FAILURE) /\ UNCHANGED directories
            ELSE pc' = "monitor" /\ directories' = AbsDirs /\ UNCHANGED exit_code
       ELSE Exit(EXIT_SUCCESS) /\ UNCHANGED directories
    /\ UNCHANGED <<command, dirs, junk, bad_option, sigchld_ignored, wd_names, j,
                   watches, buf, num_bytes_read, p, children, child_pid, shown, spawned,
                   errno, interrupts, wstatus, ws>>

----------------------------------------------------------------------------
(* monitor(): setup *)

directories_len == Len(directories)

\* malloc() of wd_names and inotify_init(); either may fail.
MonitorSetup ==
    /\ pc = "monitor"
    /\ \E malloc_ok \in BOOLEAN, init_ok \in BOOLEAN :
          IF ~malloc_ok
          THEN Exit(EXIT_FAILURE) /\ UNCHANGED <<wd_names, j>>
          ELSE IF directories_len = 0
          THEN Exit(EXIT_SUCCESS) /\ UNCHANGED <<wd_names, j>>
          ELSE IF ~init_ok
          THEN Exit(EXIT_FAILURE) /\ UNCHANGED <<wd_names, j>>
          ELSE /\ wd_names' = [i \in 1..directories_len |-> junk.wd]
               /\ j' = 0
               /\ pc' = "addwatch"
               /\ UNCHANGED exit_code
    /\ UNCHANGED <<command, dirs, junk, bad_option, sigchld_ignored, directories,
                   watches, buf, num_bytes_read, p, children, child_pid, shown, spawned,
                   errno, interrupts, wstatus, ws>>

\* What inotify_add_watch() may return for a path: the watch descriptor, or
\* -1; a pointer that is no string always fails.
AddWatchResults(path) ==
    IF path = GARBAGE THEN { 0 - 1 } ELSE { KernelAddWatch(path), 0 - 1 }

\* The test of wd left out: registration goes on after a failure.
WatchFailedNever(wd) == FALSE

\* if (wd == -1)
WatchFailed(wd) == wd = 0 - 1

\* One iteration of the registration loop: directories[j], C index j.
AddWatch ==
    /\ pc = "addwatch"
    /\ j < directories_len
    /\ IF directories[j + 1] = NULL
       THEN /\ j' = j + 1
            /\ UNCHANGED <<pc, exit_code, wd_names, watches>>
       ELSE \E wd \in AddWatchResults(directories[j + 1]) :
            IF WatchFailed(wd)
            THEN Exit(EXIT_FAILURE) /\ UNCHANGED <<j, wd_names, watches>>
            ELSE /\ watches' = IF wd = 0 - 1 THEN watches
                               ELSE watches \cup
                                    { [ino |-> Inode(directories[j + 1]), wd |-> wd] }
                 /\ wd_names' = [wd_names EXCEPT ![j + 1] = wd]
                 /\ j' = j + 1
                 /\ UNCHANGED <<pc, exit_code>>
    /\ UNCHANGED <<command, dirs, junk, bad_option, sigchld_ignored, directories, buf,
                   num_bytes_read, p, children, child_pid, shown, spawned, errno,
                   interrupts, wstatus, ws>>

\* The registration loop ends: "ready!".
Ready ==
    /\ pc = "addwatch"
    /\ j >= directories_len
    /\ pc' = "read"
    /\ UNCHANGED <<command, dirs, junk, bad_option, sigchld_ignored, exit_code,
                   directories, wd_names, j, watches, buf, num_bytes_read, p, children,
                   child_pid, shown, spawned, errno, interrupts, wstatus, ws>>

----------------------------------------------------------------------------
(* monitor(): read() *)

NoStatus == [kind |-> "none", code |-> 0]

\* The errors read() fails with in the model.
Errnos == { "EINTR", "EIO" }

\* No error of read() is retried.
RetryableNever(e) == FALSE

\* Every error of read() is retried.
RetryableAlways(e) == TRUE

\* if (errno == EINTR) ... continue
Retryable(e) == e = "EINTR"

\* The watches were added with IN_ONESHOT.
OneShotSet == TRUE

\* inotify_add_watch(inotifyFd, directories[j], IN_ALL_EVENTS): the mask
\* holds no IN_ONESHOT, so a watch stays after it has delivered an event.
OneShot == FALSE

\* The watches of the instance once the events of a batch were generated.
WatchesAfter(batch) ==
    IF OneShot
    THEN { w \in watches : \A k \in DOMAIN batch : batch[k].wd # w.wd }
    ELSE watches

\* read() returns a batch of whole event records.  errno stays as it was.
ReadBatch ==
    /\ pc = "read"
    /\ \E batch \in Batches :
          /\ Bytes(batch) <= BUF_LEN
          /\ buf' = batch
          /\ num_bytes_read' = Bytes(batch)
          /\ watches' = WatchesAfter(batch)
    /\ p' = 0
    /\ shown' = <<>>
    /\ spawned' = <<>>
    /\ interrupts' = 0
    /\ wstatus' = NoStatus
    /\ ws' = 0
    /\ pc' = "event"
    /\ UNCHANGED <<command, dirs, junk, bad_option, sigchld_ignored, exit_code,
                   directories, wd_names, j, children, child_pid, errno>>

\* read() returns 0: nothing is stored in buf and errno stays as it was.
ReadZero ==
    /\ pc = "read"
    /\ num_bytes_read' = 0
    /\ Exit(EXIT_FAILURE)
    /\ UNCHANGED <<command, dirs, junk, bad_option, sigchld_ignored, directories,
                   wd_names, j, watches, buf, p, children, child_pid, shown, spawned,
                   errno, interrupts, wstatus, ws>>

\* read() fails with EINTR: the loop continues.
ReadInterrupted ==
    /\ pc = "read"
    /\ interrupts < MaxInterrupts
    /\ \E e \in Errnos :
          /\ Retryable(e)
          /\ errno' = e
    /\ num_bytes_read' = 0 - 1
    /\ interrupts' = interrupts + 1
    /\ UNCHANGED <<command, dirs, junk, bad_option, sigchld_ignored, pc, exit_code,
                   directories, wd_names, j, watches, buf, p, children, child_pid, shown,
                   spawned, wstatus, ws>>

\* read() fails with another error.
ReadError ==
    /\ pc = "read"
    /\ \E e \in Errnos :
          /\ ~Retryable(e)
          /\ errno' = e
    /\ num_bytes_read' = 0 - 1
    /\ Exit(EXIT_FAILURE)
    /\ UNCHANGED <<command, dirs, junk, bad_option, sigchld_ignored, directories,
                   wd_names, j, watches, buf, p, children, child_pid, shown, spawned,
                   interrupts, wstatus, ws>>

----------------------------------------------------------------------------
(* show_inotify_event() *)

\* s[i] for a C string s and a C index i: the terminating null byte follows
\* the last character.
CharAt(s, i) == IF i < Len(s) THEN s[i + 1] ELSE "NUL"

strcat(dest, src) == dest \o src

\* strncat() appends at most n characters of src, stopping at its null byte.
strncat(dest, src, n) == dest \o SubSeq(src, 1, IF Len(src) < n THEN Len(src) ELSE n)

\* Triggers with the close-after-write test left out.
TriggersNoWriteOnly(mask) == "IN_CLOSE_NOWRITE" \in mask

\* Triggers with the creation test of the first generation added.
TriggersCreate(mask) ==
    "IN_CREATE" \in mask \/ "IN_CLOSE_WRITE" \in mask \/ "IN_CLOSE_NOWRITE" \in mask

\* The events that make show_inotify_event() run the command.
Triggers(mask) == "IN_CLOSE_WRITE" \in mask \/ "IN_CLOSE_NOWRITE" \in mask

\* Dispatches without the test of len.
DispatchesAnyLen(ev) == Triggers(ev.mask)

\* Dispatches with a filter on names that start with a dot.
DispatchesNoDot(ev) == Triggers(ev.mask) /\ ev.len # 0 /\ CharAt(ev.name, 0) # "."

Dispatches(ev) == Triggers(ev.mask) /\ ev.len # 0

\* "check if dir_name ends with slash symbol"
AppendsSlash(dir_name) == CharAt(dir_name, Len(dir_name)) # "/"

\* The command line assembled in cmd[].
BuildCmd(template, dir_name, ev) ==
    LET c1 == strcat(<<>>, template)
        c2 == strcat(c1, space)
        c3 == strcat(c2, dir_name)
        c4 == IF AppendsSlash(dir_name) THEN strcat(c3, slash) ELSE c3
    IN strncat(c4, ev.name, ev.len)

\* cmd[] holds PATH_MAX bytes, the terminating null byte included.
Overflows(cmd) == Len(cmd) + 1 > PATH_MAX

\* The scan keeps going after a match: the last slot that holds wd wins.
LookupLast(names, wd) ==
    IF \E i \in 1..Len(names) : names[i] = wd
    THEN (CHOOSE i \in 1..Len(names) :
             names[i] = wd /\ \A k \in (i + 1)..Len(names) : names[k] # wd) - 1
    ELSE 0 - 1

\* dir_pos starts at 0 instead of -1: a failed scan yields slot 0.
LookupDefaultZero(names, wd) ==
    IF \E i \in 1..Len(names) : names[i] = wd
    THEN (CHOOSE i \in 1..Len(names) :
             names[i] = wd /\ \A k \in 1..(i - 1) : names[k] # wd) - 1
    ELSE 0

\* The scan of wd_names: the C index of the first slot that holds wd, or -1.
Lookup(names, wd) ==
    IF \E i \in 1..Len(names) : names[i] = wd
    THEN (CHOOSE i \in 1..Len(names) :
             names[i] = wd /\ \A k \in 1..(i - 1) : names[k] # wd) - 1
    ELSE 0 - 1

Pids == { c.pid : c \in children }

\* fork() fails when the kernel has no process to give.
CanFork == \E pid \in 1..MaxPid : pid \notin Pids

NewPid == CHOOSE pid \in 1..MaxPid : pid \notin Pids /\ \A q \in 1..(pid - 1) : q \in Pids

\* What fork() may return in the parent: the pid of the child, or -1.
ForkResults == (IF CanFork THEN { NewPid } ELSE {}) \cup { 0 - 1 }

\* The case -1 of the switch left out.
ForkFailedNever(pid) == FALSE

\* switch (child_pid = fork()) { case -1:
ForkFailed(pid) == pid = 0 - 1

\* The parent goes on with the event loop without waiting for the child.
AfterForkNoWait == "event"

\* Where the parent goes after a successful fork(): the waitpid() loop.
AfterFork == "wait"

\* waitpid() returns for the child whatever its state.
ReapableAny(c) == TRUE

\* waitpid() never returns for the child.
ReapableNever(c) == FALSE

\* waitpid(child_pid, &wstatus, 0) returns only for a child that has terminated.
Reapable(c) == c.st = "zombie"

\* waitpid() is called again when it fails with EINTR.
WaitRetryableEintr(e) == e = "EINTR"

\* if (ws == -1) { perror(...); exit(EXIT_FAILURE); }: no error of waitpid()
\* is retried.
WaitRetryable(e) == FALSE

\* The first generation of the program: after the waitpid() loop the parent
\* itself calls execl("/bin/sh", "sh", "-c", cmd) and becomes the command.
AfterWaitExec == "replaced"

\* Where the parent goes once the child is reaped: show_inotify_event()
\* returns to the event loop.
AfterWait == "event"

\* The cursor moves by the size of the header only.
NextCursorHeaderOnly(off, ev) == off + EVENT_SIZE

\* p += sizeof(struct inotify_event) + event->len
NextCursor(off, ev) == off + EVENT_SIZE + ev.len

\* The body of the event loop up to fork(): lookup, logging, the decision,
\* the command line, fork().  An event that runs no command is finished here.
HandleEvent ==
    /\ pc = "event"
    /\ p < num_bytes_read
    /\ wstatus' = NoStatus
    /\ ws' = 0
    /\ LET k == IndexAt(p) IN
       IF k = 0
       THEN Crash /\ UNCHANGED <<p, children, child_pid, shown, spawned>>
       ELSE
       LET ev == buf[k]
           dir_pos == Lookup(wd_names, ev.wd)
       IN IF dir_pos = 0 - 1
          THEN Exit(EXIT_FAILURE) /\ UNCHANGED <<p, children, child_pid, shown, spawned>>
          ELSE
          LET dir_name == directories[dir_pos + 1]
              cmd == BuildCmd(command, dir_name, ev)
          IN /\ shown' = Append(shown, [at |-> p, ev |-> ev, dir |-> dir_name])
             /\ IF ~Dispatches(ev)
                THEN /\ p' = NextCursor(p, ev)
                     /\ UNCHANGED <<pc, exit_code, children, child_pid, spawned>>
                ELSE IF dir_name = NULL
                THEN Crash /\ UNCHANGED <<p, children, child_pid, spawned>>
                ELSE \E pid \in ForkResults :
                     /\ child_pid' = pid
                     /\ IF ForkFailed(pid)
                        THEN Exit(EXIT_FAILURE) /\ UNCHANGED <<p, children, spawned>>
                        ELSE /\ children' = children \cup
                                  { [pid |-> pid, cmd |-> cmd, st |-> "forked",
                                     status |-> NoStatus] }
                             /\ spawned' = Append(spawned, [at |-> p, cmd |-> cmd])
                             /\ pc' = AfterFork
                             /\ UNCHANGED <<p, exit_code>>
    /\ UNCHANGED <<command, dirs, junk, bad_option, sigchld_ignored, directories,
                   wd_names, j, watches, buf, num_bytes_read, errno, interrupts>>

\* waitpid() returns for the terminated child and stores its status, the
\* parent prints the outcome; show_inotify_event() returns and the cursor
\* moves on.  A command line that overran cmd[] has written over the stack
\* frame: the return may kill the process.
Wait ==
    /\ pc = "wait"
    /\ \E c \in children :
          /\ c.pid = child_pid
          /\ Reapable(c)
          /\ children' = children \ {c}
          /\ wstatus' = c.status
          /\ ws' = child_pid
          /\ \E smashed \in (IF Overflows(c.cmd) THEN BOOLEAN ELSE {FALSE}) :
                IF smashed
                THEN Crash /\ UNCHANGED p
                ELSE /\ p' = NextCursor(p, buf[IndexAt(p)])
                     /\ pc' = AfterWait
                     /\ UNCHANGED exit_code
    /\ UNCHANGED <<command, dirs, junk, bad_option, sigchld_ignored, directories,
                   wd_names, j, watches, buf, num_bytes_read, child_pid, shown, spawned,
                   errno, interrupts>>

\* waitpid() fails with EINTR while the child has not terminated.
WaitInterrupted ==
    /\ pc = "wait"
    /\ \E c \in children : c.pid = child_pid /\ c.st # "zombie"
    /\ errno' = "EINTR"
    /\ ws' = 0 - 1
    /\ IF WaitRetryable("EINTR")
       THEN UNCHANGED <<pc, exit_code>>
       ELSE Exit(EXIT_FAILURE)
    /\ UNCHANGED <<command, dirs, junk, bad_option, sigchld_ignored, directories,
                   wd_names, j, watches, buf, num_bytes_read, p, children, child_pid,
                   shown, spawned, interrupts, wstatus>>

\* waitpid() fails with ECHILD: the child has terminated and the kernel has
\* discarded it, as it does when SIGCHLD is ignored.
WaitNoChild ==
    /\ pc = "wait"
    /\ child_pid \notin Pids
    /\ errno' = "ECHILD"
    /\ ws' = 0 - 1
    /\ IF WaitRetryable("ECHILD")
       THEN UNCHANGED <<pc, exit_code>>
       ELSE Exit(EXIT_FAILURE)
    /\ UNCHANGED <<command, dirs, junk, bad_option, sigchld_ignored, directories,
                   wd_names, j, watches, buf, num_bytes_read, p, children, child_pid,
                   shown, spawned, interrupts, wstatus>>

\* The cursor has reached the end of the bytes read: back to read().  buf
\* and num_bytes_read stay as they are until a read() stores into them; the
\* cursor is gone with the for statement, and the histories start again.
EndOfBatch ==
    /\ pc = "event"
    /\ ~(p < num_bytes_read)
    /\ pc' = "read"
    /\ p' = 0
    /\ shown' = <<>>
    /\ spawned' = <<>>
    /\ wstatus' = NoStatus
    /\ ws' = 0
    /\ UNCHANGED <<command, dirs, junk, bad_option, sigchld_ignored, exit_code,
                   directories, wd_names, j, watches, buf, num_bytes_read, children,
                   child_pid, errno, interrupts>>

----------------------------------------------------------------------------
(* The child process *)

\* The exit(EXIT_FAILURE) after a failed execl() left out: the child leaves
\* the switch and goes on in show_inotify_event(), into the waitpid() loop.
AfterExecFailureBreak == "waiting"

\* if (execl(...) != 0) { perror(...); exit(EXIT_FAILURE); }: the child
\* terminates.
AfterExecFailure == "zombie"

\* What the kernel keeps of a child in state st: a child that has terminated
\* stays, with its status, until the parent waits for it, unless SIGCHLD is
\* ignored: then it is discarded at once.
Kept(c, st, status) ==
    IF st = "zombie" /\ sigchld_ignored
    THEN {}
    ELSE { [c EXCEPT !.st = st, !.status = status] }

\* execl("/bin/sh", "sh", "-c", cmd, NULL) in the child.
ChildExec ==
    \E c \in children, ok \in BOOLEAN :
       /\ c.st = "forked"
       /\ children' = (children \ {c}) \cup
             (IF ok THEN Kept(c, "running", NoStatus)
              ELSE Kept(c, AfterExecFailure, [kind |-> "exited", code |-> EXIT_FAILURE]))
       /\ UNCHANGED <<command, dirs, junk, bad_option, sigchld_ignored, pc, exit_code,
                      directories, wd_names, j, watches, buf, num_bytes_read, p,
                      child_pid, shown, spawned, errno, interrupts, wstatus, ws>>

\* The shell running the command terminates.
ChildTerminates ==
    \E c \in children, s \in Statuses :
       /\ c.st = "running"
       /\ children' = (children \ {c}) \cup Kept(c, "zombie", s)
       /\ UNCHANGED <<command, dirs, junk, bad_option, sigchld_ignored, pc, exit_code,
                      directories, wd_names, j, watches, buf, num_bytes_read, p,
                      child_pid, shown, spawned, errno, interrupts, wstatus, ws>>

----------------------------------------------------------------------------
(* Signals *)

\* The process is running its own code.
Alive == pc \in {"main", "monitor", "addwatch", "read", "event", "wait"}

\* A handler of SIGTERM that ends the process with exit(EXIT_SUCCESS).
HandlesSigtermByExit == TRUE

\* The program installs no signal handler: SIGTERM has its default action.
HandlesSigterm == FALSE

\* SIGTERM is delivered to the monitoring process, wherever it is.
SigTerm ==
    /\ Alive
    /\ IF HandlesSigterm
       THEN Exit(EXIT_SUCCESS)
       ELSE pc' = "killed" /\ UNCHANGED exit_code
    /\ UNCHANGED <<command, dirs, junk, bad_option, sigchld_ignored, directories,
                   wd_names, j, watches, buf, num_bytes_read, p, children, child_pid,
                   shown, spawned, errno, interrupts, wstatus, ws>>

----------------------------------------------------------------------------
(* The specifications *)

\* The process image right after exec.
Boot ==
    /\ pc = "main"
    /\ exit_code = NOT_EXITED
    /\ directories = <<>>
    /\ wd_names = <<>>
    /\ j = 0
    /\ watches = {}
    /\ buf = <<>>
    /\ num_bytes_read = 0
    /\ p = 0
    /\ children = {}
    /\ child_pid = 0
    /\ shown = <<>>
    /\ spawned = <<>>
    /\ errno = "none"
    /\ interrupts = 0
    /\ wstatus = NoStatus
    /\ ws = 0

Init ==
    /\ command \in CommandSet
    /\ dirs \in DirLists
    /\ junk \in [dirs : JunkWords, abs : JunkWords, wd : JunkWords]
    /\ bad_option \in BOOLEAN
    /\ sigchld_ignored \in BOOLEAN
    /\ Boot

\* Command lines at the limits: the longest -c argument main() accepts and
\* the shortest it refuses, with a long directory.
InitLong ==
    /\ command \in { LONG_COMMAND, TOO_LONG_COMMAND }
    /\ dirs \in { <<LONG_DIR>> }
    /\ junk \in [dirs : {0}, abs : {0}, wd : {0}]
    /\ bad_option \in BOOLEAN
    /\ sigchld_ignored \in BOOLEAN
    /\ Boot

Next ==
    \/ Main
    \/ MonitorSetup
    \/ AddWatch
    \/ Ready
    \/ ReadBatch
    \/ ReadZero
    \/ ReadInterrupted
    \/ ReadError
    \/ HandleEvent
    \/ Wait
    \/ WaitInterrupted
    \/ WaitNoChild
    \/ EndOfBatch
    \/ ChildExec
    \/ ChildTerminates

Spec == Init /\ [][Next]_vars

\* The same program on command lines at the limits.
SpecLong == InitLong /\ [][Next]_vars

\* The same program in an environment that may send SIGTERM.
NextSignals == Next \/ SigTerm

SpecSignals == Init /\ [][NextSignals]_vars

\* The same program when the process keeps running its code, which is all
\* between two system calls that block, and every child gets to its exec and
\* the shell it runs terminates.  read() may block for ever; failures and
\* interruptions may or may not happen.  One watched directory is enough
\* for every shape of batch.
InitFair ==
    /\ command \in { <<"l", "s">> }
    /\ dirs \in { <<INBOX>> }
    /\ junk \in [dirs : JunkWords, abs : JunkWords, wd : {0}]
    /\ bad_option \in BOOLEAN
    /\ sigchld_ignored \in BOOLEAN
    /\ Boot

SpecFair ==
    /\ InitFair
    /\ [][Next]_vars
    /\ WF_vars(HandleEvent)
    /\ WF_vars(Wait)
    /\ WF_vars(WaitNoChild)
    /\ WF_vars(EndOfBatch)
    /\ WF_vars(ChildExec)
    /\ WF_vars(ChildTerminates)

----------------------------------------------------------------------------
(* Vocabulary of the properties *)

Range(seq) == { seq[i] : i \in DOMAIN seq }

HasName(ev) == ev.len > 0

StartsWithDot(ev) == HasName(ev) /\ ev.name[1] = "."

\* The commands forked for the event record at byte offset off of the batch.
SpawnsAt(off) == { i \in DOMAIN spawned : spawned[i].at = off }

\* The handling of a logged event has got past fork(): the parent waits for
\* the child of this event, or the cursor has moved beyond it.
PastFork(s) == s.at < p \/ (s.at = p /\ pc = "wait")

ClosedAfterWrite(ev) == "IN_CLOSE_WRITE" \in ev.mask
ClosedNoWrite(ev) == "IN_CLOSE_NOWRITE" \in ev.mask
MovedInto(ev) == "IN_MOVED_TO" \in ev.mask

----------------------------------------------------------------------------
(* C1 *)

\* C1 as stated: every logged event whose mask contains ClosedAfterWrite or
\* MovedInto, with a name that does not start with a dot, has exactly one
\* command forked for it once its handling is past fork().
C1_Original ==
    \A s \in Range(shown) :
        (PastFork(s) /\ (ClosedAfterWrite(s.ev) \/ MovedInto(s.ev))
            /\ HasName(s.ev) /\ ~StartsWithDot(s.ev))
        => Cardinality(SpawnsAt(s.at)) = 1

\* C1, amended: every logged event whose mask contains ClosedAfterWrite, with
\* a name that does not start with a dot, has exactly one command forked for
\* it once its handling is past fork(), and while the parent waits no child
\* exists but that one.
C1_ExactlyOneForCloseWrite ==
    \A s \in Range(shown) :
        (PastFork(s) /\ ClosedAfterWrite(s.ev) /\ HasName(s.ev) /\ ~StartsWithDot(s.ev))
        => /\ Cardinality(SpawnsAt(s.at)) = 1
           /\ (s.at = p => \A c \in children :
                              /\ c.pid = child_pid
                              /\ \A i \in SpawnsAt(s.at) : c.cmd = spawned[i].cmd)

\* A close-after-write event on a.txt has been handled and its child reaped.
C1_Witness ==
    \E s \in Range(shown) :
        /\ s.at < p
        /\ ClosedAfterWrite(s.ev) /\ HasName(s.ev) /\ ~StartsWithDot(s.ev)
        /\ Cardinality(SpawnsAt(s.at)) = 1
        /\ children = {}

----------------------------------------------------------------------------
(* C2 *)

\* C2 as stated: a logged event whose mask contains neither ClosedAfterWrite
\* nor MovedInto has no command forked for it.
C2_Original ==
    \A s \in Range(shown) :
        (~ClosedAfterWrite(s.ev) /\ ~MovedInto(s.ev)) => SpawnsAt(s.at) = {}

\* C2, amended: a logged event whose mask contains none of ClosedAfterWrite,
\* ClosedNoWrite and MovedInto has no command forked for it, whatever its name.
C2_NoDispatchOutsideCloseKinds ==
    \A s \in Range(shown) :
        (~ClosedAfterWrite(s.ev) /\ ~ClosedNoWrite(s.ev) /\ ~MovedInto(s.ev))
        => (SpawnsAt(s.at) = {} /\ (s.at = p => pc # "wait"))

\* A Created event with a name has been handled and the cursor has moved on.
C2_Witness ==
    \E s \in Range(shown) :
        /\ s.at < p
        /\ s.ev.mask = {"IN_CREATE"}
        /\ HasName(s.ev) /\ ~StartsWithDot(s.ev)
        /\ SpawnsAt(s.at) = {}

----------------------------------------------------------------------------
(* C3 *)

\* C3 as stated: a logged event whose name starts with a dot has no command
\* forked for it, whatever its mask.
C3_Original ==
    \A s \in Range(shown) : StartsWithDot(s.ev) => SpawnsAt(s.at) = {}

\* C3, amended: a name that starts with a dot is not filtered.  Once its
\* handling is past fork(), such an event has exactly one command forked for
\* it when its mask contains ClosedAfterWrite or ClosedNoWrite, and none when
\* it contains neither.
C3_DotNameLikeAnyName ==
    \A s \in Range(shown) :
        StartsWithDot(s.ev)
        => IF ClosedAfterWrite(s.ev) \/ ClosedNoWrite(s.ev)
           THEN PastFork(s) => Cardinality(SpawnsAt(s.at)) = 1
           ELSE SpawnsAt(s.at) = {}

\* A close-after-write event on .t has been handled: a command ran for it.
C3_Witness ==
    \E s \in Range(shown) :
        /\ s.at < p
        /\ StartsWithDot(s.ev) /\ ClosedAfterWrite(s.ev)
        /\ Cardinality(SpawnsAt(s.at)) = 1

----------------------------------------------------------------------------
(* C4 *)

\* C4: a logged event without a name (len = 0) has no command forked for it,
\* whatever its mask, and the parent never waits at it.
C4_NoDispatchWithoutName ==
    \A s \in Range(shown) :
        ~HasName(s.ev) => (SpawnsAt(s.at) = {} /\ (s.at = p => pc # "wait"))

\* A close-after-write event without a name has been handled.
C4_Witness ==
    \E s \in Range(shown) :
        /\ s.at < p
        /\ ~HasName(s.ev) /\ ClosedAfterWrite(s.ev)
        /\ SpawnsAt(s.at) = {}

----------------------------------------------------------------------------
(* C5 *)

EndsWithSeparator(path) == Len(path) > 0 /\ path[Len(path)] = "/"

\* template + " " + resolved_path + name, with one separator between the two.
OneSeparatorCmd(template, path, name) ==
    template \o <<" ">> \o (IF EndsWithSeparator(path) THEN path ELSE path \o <<"/">>) \o name

\* C5 as stated: every forked command line is the template, a space, and the
\* resolved path joined to the name by exactly one separator.
C5_Original ==
    \A s \in Range(shown) :
        \A i \in SpawnsAt(s.at) :
            spawned[i].cmd = OneSeparatorCmd(command, s.dir, s.ev.name)

----------------------------------------------------------------------------
(* C6 *)

Last(seq) == seq[Len(seq)]

\* C6: at most one child exists at any time; the commands of a batch are
\* forked in the order of their event records; and a child that exists is
\* the child of the most recent fork, for the event under the cursor, so the
\* children of all earlier events have been reaped.
C6_OneChildInArrivalOrder ==
    /\ Cardinality(children) <= 1
    /\ \A i, k \in DOMAIN spawned : i < k => spawned[i].at < spawned[k].at
    /\ \A c \in children :
          /\ spawned # <<>>
          /\ c.cmd = Last(spawned).cmd
          /\ c.pid = child_pid
          /\ Last(spawned).at = p
    /\ (pc \in {"read", "event"} => children = {})

\* Two commands of one batch have been forked, the first child is reaped and
\* the second is running.
C6_Witness ==
    /\ Len(spawned) = 2
    /\ \E c \in children : c.st = "running" /\ c.cmd = spawned[2].cmd

----------------------------------------------------------------------------
(* C7 *)

\* C7: in a step taken while a child exists, the parent neither reads nor
\* moves to another event record (buffer, byte count, cursor and event log
\* stay as they are), unless the step is waitpid() returning for the child
\* after it has terminated.
C7_ParentBlockedWhileChild ==
    [][ children # {} =>
          \/ /\ buf' = buf
             /\ num_bytes_read' = num_bytes_read
             /\ p' = p
             /\ shown' = shown
             /\ spawned' = spawned
          \/ \E c \in children :
                /\ c.pid = child_pid
                /\ c.st = "zombie"
                /\ children' = children \ {c} ]_vars

\* The parent waits while its child runs and a further record of the batch
\* is still to be handled.
C7_Witness ==
    /\ pc = "wait"
    /\ \E c \in children : c.st = "running"
    /\ NextCursor(p, buf[IndexAt(p)]) < num_bytes_read

----------------------------------------------------------------------------
(* C8 *)

\* The slots that registration wrote: one per -d argument.
Registered == 1..dirs_counter

InLoop == pc \in {"read", "event", "wait"}

\* lookup(handle_of(P)) for the path registered in slot i.
LookupOfSlot(i) == directories[Lookup(wd_names, wd_names[i]) + 1]

\* C8 as stated: looking up the handle registration returned for a path
\* yields that path.
C8_Original ==
    InLoop => \A i \in Registered : LookupOfSlot(i) = directories[i]

\* The first registered path that names the same filesystem object as the
\* path of slot i.
FirstNameOfObject(i) ==
    directories[CHOOSE k \in 1..i :
                    /\ Inode(directories[k]) = Inode(directories[i])
                    /\ \A m \in 1..(k - 1) : Inode(directories[m]) # Inode(directories[i])]

\* C8, amended: looking up the handle registration returned for a path
\* yields the first registered path that names the same filesystem object;
\* that is the path itself unless an earlier registered path with another
\* name is the same object.  Every logged event of a registered handle
\* carries the path so resolved.
C8_LookupFirstNameOfObject ==
    InLoop =>
       /\ \A i \in Registered : LookupOfSlot(i) = FirstNameOfObject(i)
       /\ \A s \in Range(shown) :
             \A i \in Registered : wd_names[i] = s.ev.wd => s.dir = FirstNameOfObject(i)

\* /tmp and /var/spool are registered and one batch logged an event for the
\* second handle before an event for the first.
C8_Witness ==
    /\ InLoop
    /\ dirs_counter = 2
    /\ directories[1] # directories[2]
    /\ Inode(directories[1]) # Inode(directories[2])
    /\ Len(shown) = 2
    /\ shown[1].ev.wd = wd_names[2] /\ shown[1].dir = directories[2]
    /\ shown[2].ev.wd = wd_names[1] /\ shown[2].dir = directories[1]

----------------------------------------------------------------------------
(* C9 *)

\* The event record under the cursor.
Current == buf[IndexAt(p)]

AtEvent == buf # <<>> /\ p < num_bytes_read /\ IndexAt(p) # 0

\* C9 as stated: the process does not terminate at a queue overflow event.
C9_Original ==
    ~(pc = "exited" /\ AtEvent /\ "IN_Q_OVERFLOW" \in Current.mask)

----------------------------------------------------------------------------
(* C10 *)

InRegistry(wd) == \E i \in DOMAIN wd_names : wd_names[i] = wd

\* C10: a step of the event loop at a record whose handle no slot of
\* wd_names holds ends the process with exit code 1, logs nothing and forks
\* nothing; once the process has ended there, no command of the batch was
\* forked for that record or a later one.
C10_UnknownHandleIsFatal ==
    /\ [][ (pc = "event" /\ AtEvent /\ ~InRegistry(Current.wd)) =>
             /\ pc' = "exited"
             /\ exit_code' = EXIT_FAILURE
             /\ shown' = shown
             /\ spawned' = spawned
             /\ children' = children ]_vars
    /\ [](pc = "event" /\ AtEvent /\ ~InRegistry(Current.wd) => children = {})
    /\ []((pc = "exited" /\ AtEvent /\ ~InRegistry(Current.wd)) =>
             /\ exit_code = EXIT_FAILURE
             /\ \A i \in DOMAIN spawned : spawned[i].at < p
             /\ \A s \in Range(shown) : s.at < p)

\* The process has ended with exit code 1 at a record with an unknown handle
\* while a later record of the batch was never handled.
C10_Witness ==
    /\ pc = "exited"
    /\ exit_code = EXIT_FAILURE
    /\ AtEvent
    /\ ~InRegistry(Current.wd)
    /\ IndexAt(p) < Len(buf)

----------------------------------------------------------------------------
(* C11 *)

\* Every record of the batch has been logged once, in the order and at the
\* byte offsets of the batch.
LoggedInFull ==
    /\ Len(shown) = Len(buf)
    /\ \A i \in DOMAIN shown :
          shown[i].ev = buf[i] /\ shown[i].at = Bytes(SubSeq(buf, 1, i - 1))

\* C11: a read() that fails with EINTR leaves the process in the loop, at
\* the read, with no exit code, and touches neither the buffer, the cursor,
\* the event log, the commands forked nor the watches; whenever the read is
\* issued, again or for the first time, the handling of the earlier batch is
\* over and no child is left; and every batch whose end the cursor reaches
\* has had each of its records handled exactly once, in order.
C11_InterruptedReadRetried ==
    /\ [][ (pc = "read" /\ num_bytes_read' = 0 - 1 /\ errno' = "EINTR") =>
             /\ pc' = "read"
             /\ exit_code' = NOT_EXITED
             /\ buf' = buf /\ p' = p
             /\ shown' = shown /\ spawned' = spawned /\ children' = children
             /\ watches' = watches /\ wd_names' = wd_names ]_vars
    /\ [](pc = "read" => (p = 0 /\ shown = <<>> /\ spawned = <<>> /\ children = {}))
    /\ []((pc = "event" /\ ~(p < num_bytes_read)) => LoggedInFull)

\* Two reads in a row have been interrupted and the process is at the read
\* again, after an earlier batch ran a command.
C11_Witness ==
    /\ pc = "read"
    /\ interrupts >= 2
    /\ errno = "EINTR"
    /\ num_bytes_read = 0 - 1
    /\ exit_code = NOT_EXITED
    /\ \E k \in DOMAIN buf : Dispatches(buf[k])

----------------------------------------------------------------------------
(* C12 *)

\* C12: a read() that returns 0, or fails with an error other than EINTR,
\* ends the process with exit code 1 in that very step, which logs no event
\* and forks nothing; a process that has ended with a read result of 0 or -1
\* has handled no record since that read and has no command forked or
\* running.
C12_FailedReadIsFatal ==
    /\ [][ (pc = "read" /\ (\/ num_bytes_read' = 0
                            \/ (num_bytes_read' = 0 - 1 /\ errno' # "EINTR"))) =>
             /\ pc' = "exited"
             /\ exit_code' = EXIT_FAILURE
             /\ buf' = buf /\ shown' = shown /\ spawned' = spawned
             /\ children' = children ]_vars
    /\ []((pc = "exited" /\ num_bytes_read <= 0) =>
             (p = 0 /\ shown = <<>> /\ spawned = <<>> /\ children = {}))

\* A read has failed with EIO after an earlier batch ran a command, and the
\* process has ended with exit code 1.
C12_Witness ==
    /\ pc = "exited"
    /\ exit_code = EXIT_FAILURE
    /\ errno = "EIO"
    /\ num_bytes_read = 0 - 1
    /\ \E k \in DOMAIN buf : Dispatches(buf[k])

----------------------------------------------------------------------------
(* C13 *)

\* len(command_template) + 1 + len(full_path), the full path being the
\* directory, a separator and the name.
CommandLineLen(s) == Len(command) + 1 + Len(s.dir) + 1 + Len(s.ev.name)

\* C13 as stated: a logged event whose command line is longer than the
\* buffer the command line is assembled in (PATH_MAX bytes) has no command
\* forked for it.
C13_Original ==
    \A s \in Range(shown) : CommandLineLen(s) > PATH_MAX => SpawnsAt(s.at) = {}

----------------------------------------------------------------------------
(* C14 *)

Abnormal(s) == (s.kind = "exited" /\ s.code # 0) \/ s.kind = "signaled"

\* C14: the step in which waitpid() returns for a child that exited with a
\* nonzero status or was killed by a signal stores that status as the
\* outcome printed, moves the cursor to the next record of the same batch
\* and leaves the process in the event loop, with no exit code, the same
\* command template and the same watches; the process never becomes another
\* program.
C14_ParentSurvivesChildFailure ==
    /\ [][ \A c \in children :
             (pc = "wait" /\ c.pid = child_pid /\ c.st = "zombie" /\ Abnormal(c.status)
                 /\ c \notin children') =>
                /\ pc' = "event"
                /\ exit_code' = NOT_EXITED
                /\ wstatus' = c.status
                /\ p' = NextCursor(p, Current)
                /\ buf' = buf
                /\ command' = command
                /\ watches' = watches /\ wd_names' = wd_names ]_vars
    /\ [](pc # "replaced")

\* A child has exited with status 2, the outcome is stored and the loop is
\* at the next record of the batch.
C14_Witness ==
    /\ pc = "event"
    /\ wstatus = [kind |-> "exited", code |-> 2]
    /\ AtEvent
    /\ p > 0
    /\ exit_code = NOT_EXITED

----------------------------------------------------------------------------
(* C15 *)

\* C15 as stated: the process never ends after an interrupted waitpid()
\* with the child it waited for unreaped.
C15_Original ==
    ~(pc = "exited" /\ ws = 0 - 1 /\ errno = "EINTR" /\ \E c \in children : c.pid = child_pid)

\* C15, amended: waitpid() is not retried.  The step in which it fails ends
\* the process with exit code 1, reaps nothing and handles no further
\* record; the parent is never in the wait after a failure, which leaves it
\* ended with exit code 1; an interrupted wait leaves the child unreaped and
\* not terminated, and a wait for a child the kernel has discarded leaves no
\* child.
C15_WaitFailureIsFatal ==
    /\ [][ (pc = "wait" /\ ws' = 0 - 1) =>
             /\ pc' = "exited"
             /\ exit_code' = EXIT_FAILURE
             /\ children' = children
             /\ p' = p /\ shown' = shown /\ spawned' = spawned ]_vars
    /\ [](pc = "wait" => ws = 0)
    /\ [](ws = 0 - 1 => (pc = "exited" /\ exit_code = EXIT_FAILURE))
    /\ [][ (pc = "wait" /\ ws' = 0 - 1 /\ errno' = "EINTR") =>
             \E c \in children' : c.pid = child_pid /\ c.st # "zombie" ]_vars
    /\ [][ (pc = "wait" /\ ws' = 0 - 1 /\ errno' = "ECHILD") => children' = {} ]_vars

\* The wait was interrupted while the command ran, after an interrupted
\* read of an earlier batch: the process has ended with exit code 1 and the
\* command is still running.
C15_Witness ==
    /\ pc = "exited"
    /\ exit_code = EXIT_FAILURE
    /\ ws = 0 - 1
    /\ errno = "EINTR"
    /\ \E c \in children : c.pid = child_pid /\ c.st = "running"

----------------------------------------------------------------------------
(* C16 *)

\* C16 as stated: a process that a termination signal has ended has finished
\* the batch it was handling, has left no command running and has exit code 0.
C16_Original ==
    pc = "killed" => (exit_code = EXIT_SUCCESS /\ ~AtEvent /\ children = {})

\* C16, amended: there is no cooperative cancellation.  The step in which
\* SIGTERM ends the process leaves the cursor, the event log, the commands
\* forked and the children as they are, wherever the process was, and gives
\* no exit code; and the event loop is left only by that signal, by a bad
\* memory access or by exit code 1, never by exit code 0.
C16_SignalKillsAtOnce ==
    /\ [][ (Alive /\ pc' = "killed") =>
             /\ exit_code' = NOT_EXITED
             /\ buf' = buf /\ p' = p
             /\ shown' = shown /\ spawned' = spawned /\ children' = children ]_vars
    /\ [][ (InLoop /\ pc' \notin {"read", "event", "wait"}) =>
             \/ pc' \in {"killed", "crashed"}
             \/ (pc' = "exited" /\ exit_code' = EXIT_FAILURE) ]_vars
    /\ [](pc = "killed" => exit_code = NOT_EXITED)

\* SIGTERM has ended the process while the parent waited for a running
\* command and a further record of the batch was still to be handled.
C16_Witness ==
    /\ pc = "killed"
    /\ AtEvent
    /\ IndexAt(p) < Len(buf)
    /\ \E c \in children : c.pid = child_pid /\ c.st = "running"

----------------------------------------------------------------------------
(* C17 *)

\* C17 as stated: a process started with no -d argument and a valid command
\* that has ended has exit code 1.
C17_Original ==
    (pc = "exited" /\ dirs = <<>> /\ CommandValid(command)) => exit_code = EXIT_FAILURE

----------------------------------------------------------------------------
(* C18 *)

\* C18 as stated: with a command that is missing or too long, the process,
\* once past main()'s checks, has ended with exit code 1, with no watch
\* registered, no wd_names allocated and nothing read.
C18_Original ==
    (~CommandValid(command) /\ pc # "main") =>
        /\ pc = "exited"
        /\ exit_code = EXIT_FAILURE
        /\ watches = {} /\ wd_names = <<>> /\ buf = <<>>

----------------------------------------------------------------------------
(* C19 *)

\* C19: in the event loop every -d argument has its watch, under the
\* descriptor its slot of wd_names holds; a step that leaves the setup
\* without reaching the loop ends the process with exit code 1, with nothing
\* read and nothing forked; and the loop starts only when no slot is left to
\* register.
C19_SetupFailureIsFatal ==
    /\ [](InLoop =>
            \A i \in Registered :
                /\ wd_names[i] \in WatchedWds
                /\ [ino |-> Inode(directories[i]), wd |-> wd_names[i]] \in watches)
    /\ [][ (pc \in {"monitor", "addwatch"} /\ pc' \notin {"monitor", "addwatch", "read"}) =>
             /\ pc' = "exited"
             /\ exit_code' = EXIT_FAILURE
             /\ buf' = <<>> /\ shown' = <<>> /\ spawned' = <<>> /\ children' = {} ]_vars
    /\ [][ (pc = "addwatch" /\ pc' = "read") => j >= directories_len ]_vars

\* The second of two -d arguments could not be registered after the first
\* was: the process has ended with exit code 1 and nothing was read.
C19_Witness ==
    /\ pc = "exited"
    /\ exit_code = EXIT_FAILURE
    /\ wd_names # <<>>
    /\ 0 < j /\ j < dirs_counter
    /\ watches # {}
    /\ buf = <<>>

----------------------------------------------------------------------------
(* C20 *)

\* C20: the step of the event loop in which fork() returns -1 ends the
\* process with exit code 1, with no child and the cursor where it was; a
\* process whose fork() returned -1 has ended with exit code 1 at the record
\* it was handling, the last one it logged, with no child to wait for and no
\* command forked for that record or a later one.
C20_ForkFailureIsFatal ==
    /\ [][ (pc = "event" /\ child_pid' = 0 - 1) =>
             /\ pc' = "exited"
             /\ exit_code' = EXIT_FAILURE
             /\ children = {} /\ children' = {}
             /\ p' = p /\ buf' = buf /\ spawned' = spawned ]_vars
    /\ [](child_pid = 0 - 1 =>
             /\ pc = "exited"
             /\ exit_code = EXIT_FAILURE
             /\ children = {}
             /\ AtEvent
             /\ Dispatches(Current)
             /\ shown # <<>> /\ Last(shown).at = p
             /\ \A i \in DOMAIN spawned : spawned[i].at < p)

\* fork() has failed at the first of two records: the process has ended
\* with exit code 1 and the second record was never handled.
C20_Witness ==
    /\ pc = "exited"
    /\ exit_code = EXIT_FAILURE
    /\ child_pid = 0 - 1
    /\ AtEvent
    /\ IndexAt(p) < Len(buf)
    /\ Len(shown) = IndexAt(p)

----------------------------------------------------------------------------
(* C21 *)

ExecFailed == [kind |-> "exited", code |-> EXIT_FAILURE]

\* C21: a child is always before its exec, running the shell, or
\* terminated, never in the code of the parent; the step in which a child
\* that has not yet run the shell ends gives it the exit status
\* EXIT_FAILURE and leaves the parent, its cursor, its buffer and its
\* histories as they are; and the step in which waitpid() returns for such
\* a child moves the cursor to the next record and leaves the parent in
\* the event loop with no exit code.  A child ceases to exist only when the
\* parent reaps it or, SIGCHLD being ignored, in a step of its own that
\* leaves the parent as it is.
C21_ExecFailureEndsChildOnly ==
    /\ [](\A c \in children : c.st \in {"forked", "running", "zombie"})
    /\ [][ \A c \in children : \A d \in children' :
             (c.st = "forked" /\ d.pid = c.pid /\ d.st \notin {"forked", "running"}) =>
                /\ d.st = "zombie"
                /\ d.status = ExecFailed
                /\ Abnormal(d.status)
                /\ pc' = pc /\ exit_code' = exit_code
                /\ buf' = buf /\ num_bytes_read' = num_bytes_read /\ p' = p
                /\ shown' = shown /\ spawned' = spawned ]_vars
    /\ [][ \A c \in children :
             (pc = "wait" /\ c.pid = child_pid /\ c.st = "zombie" /\ c.status = ExecFailed
                 /\ c \notin children') =>
                /\ pc' = "event"
                /\ exit_code' = NOT_EXITED
                /\ p' = NextCursor(p, Current) ]_vars
    /\ [][ \A c \in children :
             (c.st # "zombie" /\ c.pid \notin { d.pid : d \in children' }) =>
                /\ sigchld_ignored
                /\ pc' = pc /\ exit_code' = exit_code
                /\ buf' = buf /\ num_bytes_read' = num_bytes_read /\ p' = p
                /\ shown' = shown /\ spawned' = spawned ]_vars

\* The exec of a child failed, the parent has reaped it with exit status
\* EXIT_FAILURE and is at the next record of the batch.
C21_Witness ==
    /\ pc = "event"
    /\ wstatus = ExecFailed
    /\ AtEvent
    /\ p > 0
    /\ exit_code = NOT_EXITED

----------------------------------------------------------------------------
(* C22 *)

\* C22: no step taken while the process is in the event loop, by the
\* process, by a child or by the kernel delivering events, changes the
\* list of paths, the descriptor of any slot, or the set of watches.
C22_RegistryFrozenInLoop ==
    [][ InLoop =>
          /\ directories' = directories
          /\ wd_names' = wd_names
          /\ watches' = watches
          /\ dirs' = dirs ]_vars

\* Two paths are watched, two commands of one batch were forked, and every
\* slot still has the watch and the descriptor that registration gave it.
C22_Witness ==
    /\ pc = "wait"
    /\ Len(spawned) = 2
    /\ Cardinality(watches) = 2
    /\ \A i \in Registered :
          [ino |-> Inode(directories[i]), wd |-> wd_names[i]] \in watches

----------------------------------------------------------------------------
(* C23 *)

\* C23 as stated: every logged event was resolved to a slot that
\* registration wrote, and the path handed to show_inotify_event() is not
\* NULL.
C23_Original ==
    \A s \in Range(shown) :
        /\ s.dir # NULL
        /\ (Lookup(wd_names, s.ev.wd) + 1) \in Registered

----------------------------------------------------------------------------
(* C24 *)

\* C24 as stated: every command line forked, with its terminating null
\* byte, fits in the PATH_MAX bytes of cmd[].
C24_Original ==
    \A i \in DOMAIN spawned : Len(spawned[i].cmd) + 1 <= PATH_MAX

----------------------------------------------------------------------------
(* C25 *)

\* The byte offset of the k-th record of the batch.
Offset(k) == Bytes(SubSeq(buf, 1, k - 1))

\* C25: while a batch is handled the cursor is at the start of a record or
\* at the number of bytes read, never beyond; the events logged are the
\* records before the cursor, each once, in buffer order, with the record
\* under the cursor added while the parent waits for its child; the cursor
\* moves only by the header size plus the len of the record under it; and
\* the loop goes back to read() exactly when the cursor equals the number
\* of bytes read, with every record logged.
C25_BatchHandledOnceInOrder ==
    /\ [](pc \in {"event", "wait"} =>
            /\ num_bytes_read = Bytes(buf)
            /\ p <= num_bytes_read
            /\ (p < num_bytes_read => IndexAt(p) # 0)
            /\ \A i \in DOMAIN shown : shown[i].ev = buf[i] /\ shown[i].at = Offset(i)
            /\ Len(shown) = IF p = num_bytes_read THEN Len(buf)
                             ELSE IF pc = "wait" THEN IndexAt(p)
                             ELSE IndexAt(p) - 1)
    /\ [][ (pc \in {"event", "wait"} /\ pc' \in {"event", "wait"} /\ p' # p) =>
             /\ IndexAt(p) # 0
             /\ p' = p + EVENT_SIZE + Current.len
             /\ buf' = buf ]_vars
    /\ [][ (pc = "event" /\ pc' = "read") => (p = num_bytes_read /\ LoggedInFull) ]_vars
    /\ [][ (pc = "event" /\ p = num_bytes_read) => pc' = "read" ]_vars

\* The first of two records had a command forked for it, its child has
\* terminated, the second record has been handled too and the cursor is at
\* the number of bytes read.
C25_Witness ==
    /\ pc = "event"
    /\ Len(buf) = 2
    /\ p = num_bytes_read
    /\ LoggedInFull
    /\ spawned # <<>>
    /\ spawned[1].at = 0
    /\ children = {}

----------------------------------------------------------------------------
(* C26 *)

Ended == pc \in {"exited", "crashed"}

\* C26: when children terminate, a process that is handling a batch gets
\* back to read() unless it ends on a fatal condition; whenever the cursor
\* has reached the end of a batch, every record of it that qualifies has
\* had its command forked; and in a step taken while the child waited for
\* has not terminated, the parent handles no record and reads nothing: it
\* stays in the wait, or ends.
C26_ProgressUnlessChildHangs ==
    /\ (pc \in {"event", "wait"}) ~> (pc = "read" \/ Ended)
    /\ []((pc = "event" /\ p = num_bytes_read) =>
            \A k \in DOMAIN buf : Dispatches(buf[k]) => SpawnsAt(Offset(k)) # {})
    /\ [][ (pc = "wait" /\ \E c \in children : c.pid = child_pid /\ c.st # "zombie") =>
             /\ pc' \in {"wait", "exited"}
             /\ buf' = buf /\ num_bytes_read' = num_bytes_read /\ p' = p
             /\ shown' = shown /\ spawned' = spawned ]_vars

\* A batch of two records that qualify has been handled to its end, both
\* children have terminated and the process is back at read().
C26_Witness ==
    /\ pc = "read"
    /\ Len(buf) = 2
    /\ \A k \in DOMAIN buf : Dispatches(buf[k])
    /\ num_bytes_read = Bytes(buf)
    /\ children = {}
    /\ exit_code = NOT_EXITED

====
